---- MODULE Spec2Model ----
(***************************************************************************)
(* Model of the currency-rates widget (src/main.rs): a poller thread that  *)
(* calls call_api every UPDATE_PERIOD_SECONDS and submits SET_CURRENCIES    *)
(* commands to the UI thread, whose Delegate replaces AppState's list.      *)
(*                                                                         *)
(* Rust Strings are sequences of one-character strings, f32 prices are      *)
(* naturals, Option values are sequences of length 0 (None) or 1 (Some).    *)
(***************************************************************************)
EXTENDS Naturals, Sequences, FiniteSets, TLC

VARIABLES
    app_state,      \* AppState owned by the UI thread (main.rs:36-38)
    currency_list,  \* the list moved into the poller closure (main.rs:135)
    queue,          \* commands submitted through the ExtEventSink, not yet delivered
    param,          \* call_api's local pair_param (main.rs:155)
    result,         \* what reqwest::blocking::get returned to call_api (main.rs:157)
    pollerPc,       \* position of the poller thread (main.rs:136-143)
    mainPc,         \* position of the main / UI thread (main.rs:125-152)
    cycle,          \* history: number of call_api invocations counted so far
    published,      \* history: the lists submitted, in submission order
    applied,        \* history: ids of the commands the Delegate applied, in order
    outcome         \* history: how the most recent call_api ended

vars == <<app_state, currency_list, queue, param, result, pollerPc, mainPc,
          cycle, published, applied, outcome>>

-----------------------------------------------------------------------------
\* Bounds of the model.

\* call_api invocations explored while the window is open
MaxCycles == 3
\* distinct quote levels the server can answer with
MaxQuote == 2
\* longest tracked pair list given to pair_param on its own
MaxLen == 2

-----------------------------------------------------------------------------
\* Strings of the program.

EUR == <<"E", "U", "R">>
USD == <<"U", "S", "D">>
ETH == <<"E", "T", "H">>
BTC == <<"B", "T", "C">>

BID_FIELD == <<"b", "i", "d">>
ASK_FIELD == <<"a", "s", "k">>
SET_CURRENCIES == <<"s", "e", "t", "_", "c", "u", "r", "r", "e", "n", "c", "i", "e", "s">>

Range(s) == {s[i] : i \in 1..Len(s)}

-----------------------------------------------------------------------------
\* Quote records and the default state.

Currency_new(base, target) == [base |-> base, target |-> target, bid |-> 0, ask |-> 0]

AppState_default ==
    [currency_list |-> << Currency_new(EUR, USD),
                          Currency_new(ETH, USD),
                          Currency_new(BTC, USD) >>]

-----------------------------------------------------------------------------
\* pair_param: "{base}-{target}" of every record, joined by commas.

FormatPair_nodash(c) == c.base \o c.target

FormatPair(c) == c.base \o <<"-">> \o c.target

RECURSIVE Join(_, _)
Join(strs, sep) ==
    IF strs = <<>> THEN <<>>
    ELSE IF Len(strs) = 1 THEN strs[1]
    ELSE strs[1] \o sep \o Join(Tail(strs), sep)

pair_param(list) == Join([i \in 1..Len(list) |-> FormatPair(list[i])], <<",">>)

-----------------------------------------------------------------------------
\* serde_json::Value, as far as call_api reads it.

JNull == [t |-> "null"]
JString(s) == [t |-> "string", s |-> s]
JNumber(n) == [t |-> "number", n |-> n]
JArray == [t |-> "array"]
JObject(m) == [t |-> "object", m |-> m]

\* Value[key]: Null when the value is no object or has no such key
Index(v, key) == IF v.t = "object" /\ key \in DOMAIN v.m THEN v.m[key] ELSE JNull

\* Value::as_str: Some only for a JSON string
as_str(v) == IF v.t = "string" THEN <<v.s>> ELSE <<>>

Digits == <<"0", "1", "2", "3", "4", "5", "6", "7", "8", "9">>

DigitOf(ch) == CHOOSE d \in 0..9 : Digits[d + 1] = ch

RECURSIVE DecimalValue(_)
DecimalValue(s) ==
    IF s = <<>> THEN 0
    ELSE DecimalValue(SubSeq(s, 1, Len(s) - 1)) * 10 + DigitOf(s[Len(s)])

\* str::parse::<f32> on the strings of this model: decimal digit strings parse,
\* the empty string and strings with a non-digit do not
parse_f32(s) ==
    IF s /= <<>> /\ \A i \in 1..Len(s) : s[i] \in Range(Digits)
    THEN <<DecimalValue(s)>>
    ELSE <<>>

-----------------------------------------------------------------------------
\* The server: what one GET can return.

StatusCode_OK == 200

Statuses == {StatusCode_OK, 204, 404, 500}

Quotes == 1..MaxQuote

RECURSIVE ToDigits(_)
ToDigits(n) ==
    IF n < 10 THEN <<Digits[n + 1]>>
    ELSE ToDigits(n \div 10) \o <<Digits[(n % 10) + 1]>>

AskOf(i, q) == 10 * q + 2 * i
BidOf(i, q) == 10 * q + 2 * i - 1

Tracked == AppState_default.currency_list

\* How the body treats one tracked pair
Kinds == {"ok", "nokey", "dashkey", "noask", "numbid", "badask"}

KeyOf(i, kind) ==
    IF kind = "dashkey" THEN FormatPair(Tracked[i])
    ELSE Tracked[i].base \o Tracked[i].target

EntryOf(i, kind, q) ==
    LET ask == JString(ToDigits(AskOf(i, q)))
        bid == JString(ToDigits(BidOf(i, q)))
    IN  CASE kind = "noask"  -> JObject([f \in {BID_FIELD} |-> bid])
          [] kind = "numbid" -> JObject([f \in {ASK_FIELD, BID_FIELD} |->
                                    IF f = ASK_FIELD THEN ask ELSE JNumber(BidOf(i, q))])
          [] kind = "badask" -> JObject([f \in {ASK_FIELD, BID_FIELD} |->
                                    IF f = ASK_FIELD THEN JString(<<"x">>) ELSE bid])
          [] OTHER           -> JObject([f \in {ASK_FIELD, BID_FIELD} |->
                                    IF f = ASK_FIELD THEN ask ELSE bid])

BodyOf(kinds, q) ==
    LET present == {i \in 1..Len(Tracked) : kinds[i] /= "nokey"}
        keys == {KeyOf(i, kinds[i]) : i \in present}
        at(k) == CHOOSE i \in present : KeyOf(i, kinds[i]) = k
    IN  JObject([k \in keys |-> EntryOf(at(k), kinds[at(k)], q)])

AllOk == [i \in 1..Len(Tracked) |-> "ok"]

\* bodies served: at most one tracked pair is treated other than "ok"
BodyKinds ==
    {k \in [1..Len(Tracked) -> Kinds] : Cardinality({i \in 1..Len(Tracked) : k[i] /= "ok"}) <= 1}

Served ==
    {[slice |-> "transport", status |-> StatusCode_OK, kinds |-> AllOk, q |-> 1]}
    \cup {[slice |-> "status", status |-> s, kinds |-> AllOk, q |-> q] :
            s \in Statuses \ {StatusCode_OK}, q \in Quotes}
    \cup {[slice |-> x, status |-> StatusCode_OK, kinds |-> AllOk, q |-> 1] :
            x \in {"text", "notjson", "array"}}
    \cup {[slice |-> "object", status |-> StatusCode_OK, kinds |-> k, q |-> q] :
            k \in BodyKinds, q \in Quotes}

\* Result<Response>: transport is the Result, status the Response's status, text
\* whether Response::text succeeds, json whether the body is JSON, value its Value
ResultOf(d) ==
    [transport |-> IF d.slice = "transport" THEN "err" ELSE "ok",
     status    |-> d.status,
     text      |-> IF d.slice = "text" THEN "err" ELSE "ok",
     json      |-> d.slice /= "notjson",
     value     |-> IF d.slice = "array" THEN JArray ELSE BodyOf(d.kinds, d.q)]

NoResult ==
    [transport |-> "none", status |-> 0, text |-> "none", json |-> FALSE, value |-> JNull]

-----------------------------------------------------------------------------
\* call_api, line by line.

StatusIsOk_lenient(status) == status < 500

\* match response.status() { reqwest::StatusCode::OK => ..., _ => ... }
StatusIsOk(status) == status = StatusCode_OK

\* format!("{}{}", c.base, c.target)
PairName(c) == c.base \o c.target

\* resp[&pair_name][field].as_str().unwrap().parse().unwrap(), as an Option:
\* None when either unwrap panics
FieldOf(resp, pair_name, field) ==
    LET s == as_str(Index(Index(resp, pair_name), field))
    IN  IF Len(s) = 0 THEN <<>> ELSE parse_f32(s[1])

UpdatedCurrency_swapped(c, bid, ask) ==
    [base |-> c.target, target |-> c.base, bid |-> bid, ask |-> ask]

\* Currency { base: c.base.clone(), target: c.target.clone(), bid, ask }
UpdatedCurrency(c, bid, ask) ==
    [base |-> c.base, target |-> c.target, bid |-> bid, ask |-> ask]

\* the closure of the map panics for some record
MapPanics(resp, list) ==
    \E i \in 1..Len(list) :
        \/ Len(FieldOf(resp, PairName(list[i]), ASK_FIELD)) = 0
        \/ Len(FieldOf(resp, PairName(list[i]), BID_FIELD)) = 0

\* currency_list.iter().map(...).collect(), when no record panics
MapCurrencies(resp, list) ==
    [i \in 1..Len(list) |->
        UpdatedCurrency(list[i],
                        FieldOf(resp, PairName(list[i]), BID_FIELD)[1],
                        FieldOf(resp, PairName(list[i]), ASK_FIELD)[1])]

\* How call_api ends on a given result of the GET: "submitted", "status" (the
\* eprintln! arm), or the unwrap that panics
CallApiOutcome(res, list) ==
    IF res.transport = "err" THEN "transport"
    ELSE IF ~StatusIsOk(res.status) THEN "status"
    ELSE IF res.text = "err" THEN "text"
    ELSE IF ~res.json THEN "json"
    ELSE IF MapPanics(res.value, list) THEN "field"
    ELSE "submitted"

Panics(o) == o \in {"transport", "text", "json", "field"}

\* sink.submit_command(SET_CURRENCIES, currencies, Target::Auto); id is history
Command(list, id) == [selector |-> SET_CURRENCIES, payload |-> list, id |-> id]

-----------------------------------------------------------------------------
\* The delegate and the threads.

DelegateCommand_fieldwise(state, cmd) ==
    IF cmd.selector = SET_CURRENCIES
    THEN [state EXCEPT !.currency_list =
            [i \in 1..Len(state.currency_list) |->
                IF i = 1 THEN cmd.payload[i] ELSE state.currency_list[i]]]
    ELSE state

\* Delegate::command: a SET_CURRENCIES command replaces the whole list
DelegateCommand(state, cmd) ==
    IF cmd.selector = SET_CURRENCIES
    THEN [state EXCEPT !.currency_list = cmd.payload]
    ELSE state

NextCommand_newest(q) == q[Len(q)]

\* the command the event loop hands to the delegate next
NextCommand(q) == Head(q)

MainAfterPollerPanic_abort(pc) == "panicked"

\* a panic in a spawned thread unwinds that thread only: the main thread goes on
MainAfterPollerPanic(pc) == pc

\* the process lives until main returns or panics
ProcessAlive == mainPc \in {"starting", "running", "join"}

\* the event loop exists (or is about to): submitted commands can be delivered
Delivering == mainPc \in {"starting", "running"}

TypeOK ==
    /\ pollerPc \in {"call_api", "handle", "sleep", "panicked"}
    /\ mainPc \in {"starting", "running", "join", "panicked"}
    /\ cycle \in 0..MaxCycles
    /\ Len(queue) <= MaxCycles
    /\ outcome \in {"none", "status", "submitted", "transport", "text", "json", "field"}

Init ==
    /\ app_state = AppState_default
    /\ currency_list = AppState_default.currency_list
    /\ queue = <<>>
    /\ param = <<>>
    /\ result = NoResult
    /\ pollerPc = "call_api"
    /\ mainPc = "starting"
    /\ cycle = 0
    /\ published = <<>>
    /\ applied = <<>>
    /\ outcome = "none"

\* call_api up to the return of the blocking GET (main.rs:155-157)
HttpGet ==
    /\ pollerPc = "call_api"
    /\ ProcessAlive
    /\ cycle < MaxCycles \/ ~Delivering
    /\ param' = pair_param(currency_list)
    /\ \E d \in Served : result' = ResultOf(d)
    /\ pollerPc' = "handle"
    /\ cycle' = IF Delivering THEN cycle + 1 ELSE cycle
    /\ UNCHANGED <<app_state, currency_list, queue, mainPc, published, applied, outcome>>

\* call_api from the unwrap of the GET's result to its end (main.rs:157-176).
\* Commands submitted after the window has closed can never be delivered and
\* are not recorded.
HandleResponse ==
    /\ pollerPc = "handle"
    /\ ProcessAlive
    /\ LET o == CallApiOutcome(result, currency_list)
           currencies == MapCurrencies(result.value, currency_list)
       IN  /\ outcome' = o
           /\ pollerPc' = IF Panics(o) THEN "panicked" ELSE "sleep"
           /\ mainPc' = IF Panics(o) THEN MainAfterPollerPanic(mainPc) ELSE mainPc
           /\ IF o = "submitted" /\ Delivering
              THEN /\ queue' = Append(queue, Command(currencies, Len(published) + 1))
                   /\ published' = Append(published, currencies)
              ELSE UNCHANGED <<queue, published>>
    /\ result' = NoResult
    /\ UNCHANGED <<app_state, currency_list, param, cycle, applied>>

\* thread::sleep(Duration::from_secs(UPDATE_PERIOD_SECONDS)), then loop
Sleep ==
    /\ pollerPc = "sleep"
    /\ ProcessAlive
    /\ pollerPc' = "call_api"
    /\ UNCHANGED <<app_state, currency_list, queue, param, result, mainPc,
                   cycle, published, applied, outcome>>

\* launcher.launch(app_state) opens the window and runs the event loop
LaunchOk ==
    /\ mainPc = "starting"
    /\ mainPc' = "running"
    /\ UNCHANGED <<app_state, currency_list, queue, param, result, pollerPc,
                   cycle, published, applied, outcome>>

\* launch returns Err: .expect("Failed to launch application") panics in main
LaunchFails ==
    /\ mainPc = "starting"
    /\ mainPc' = "panicked"
    /\ UNCHANGED <<app_state, currency_list, queue, param, result, pollerPc,
                   cycle, published, applied, outcome>>

\* the event loop delivers one submitted command to Delegate::command
DeliverCommand ==
    /\ mainPc = "running"
    /\ queue /= <<>>
    /\ LET cmd == NextCommand(queue)
       IN  /\ app_state' = DelegateCommand(app_state, cmd)
           /\ applied' = Append(applied, cmd.id)
    /\ queue' = Tail(queue)
    /\ UNCHANGED <<currency_list, param, result, pollerPc, mainPc,
                   cycle, published, outcome>>

\* the window closes and launch returns Ok: main goes on to handle.join()
WindowClose ==
    /\ mainPc = "running"
    /\ mainPc' = "join"
    /\ UNCHANGED <<app_state, currency_list, queue, param, result, pollerPc,
                   cycle, published, applied, outcome>>

\* handle.join() returns only when the poller thread has ended, which it does
\* only by panicking: join gives Err and .unwrap() panics in main
JoinReturnsErr ==
    /\ mainPc = "join"
    /\ pollerPc = "panicked"
    /\ mainPc' = "panicked"
    /\ UNCHANGED <<app_state, currency_list, queue, param, result, pollerPc,
                   cycle, published, applied, outcome>>

Poller == HttpGet \/ HandleResponse \/ Sleep

Main == LaunchOk \/ LaunchFails \/ DeliverCommand \/ WindowClose \/ JoinReturnsErr

Next == Poller \/ Main

Spec == Init /\ [][Next]_vars

\* The scheduler runs both threads; only the user decides when the window closes
\* and the platform whether the launch succeeds.
FairSpec ==
    /\ Spec
    /\ WF_vars(Poller)
    /\ WF_vars(DeliverCommand)
    /\ WF_vars(JoinReturnsErr)

-----------------------------------------------------------------------------
\* pair_param on its own: any non-empty list of pairs over a few codes.

Codes == {EUR, USD, BTC}

PairLists ==
    UNION {[1..n -> {Currency_new(b, t) : b \in Codes, t \in Codes}] : n \in 1..MaxLen}

ParamInit ==
    /\ currency_list \in PairLists
    /\ app_state = AppState_default
    /\ queue = <<>>
    /\ param = <<>>
    /\ result = NoResult
    /\ pollerPc = "call_api"
    /\ mainPc = "starting"
    /\ cycle = 0
    /\ published = <<>>
    /\ applied = <<>>
    /\ outcome = "none"

\* let pair_param = pair_param(currency_list) (main.rs:155)
PairParamCall ==
    /\ param = <<>>
    /\ param' = pair_param(currency_list)
    /\ UNCHANGED <<app_state, currency_list, queue, result, pollerPc, mainPc,
                   cycle, published, applied, outcome>>

ParamSpec == ParamInit /\ [][PairParamCall]_vars

-----------------------------------------------------------------------------
\* Vocabulary of the properties.

\* a step of the poller that ends a call_api invocation
CallApiEnds == pollerPc = "handle" /\ pollerPc' /= "handle"

NotSuccess(status) == status < 200 \/ status >= 300

Last(s) == s[Len(s)]

\* the list derived from the most recent cycle that published
LastGood == IF published = <<>> THEN AppState_default.currency_list ELSE Last(published)

SameShape(l) ==
    /\ Len(l) = Len(AppState_default.currency_list)
    /\ \A i \in 1..Len(l) :
        /\ l[i].base = AppState_default.currency_list[i].base
        /\ l[i].target = AppState_default.currency_list[i].target

RECURSIVE SplitOn(_, _)
SplitOn(s, ch) ==
    IF \A i \in 1..Len(s) : s[i] /= ch THEN <<s>>
    ELSE LET k == CHOOSE i \in 1..Len(s) : s[i] = ch /\ \A j \in 1..(i - 1) : s[j] /= ch
         IN  <<SubSeq(s, 1, k - 1)>> \o SplitOn(SubSeq(s, k + 1, Len(s)), ch)

Malformed == {"text", "json", "field"}

-----------------------------------------------------------------------------
\* C1: every failing cycle (transport failure, non-success status, unreadable or
\* non-JSON body, missing key, non-numeric field) is abandoned without publishing,
\* leaves the published list as it was, and the poller goes on to sleep and to
\* the next cycle.
C1_FailureNotFatal ==
    [][(CallApiEnds /\ outcome' /= "submitted")
        => (queue' = queue /\ app_state' = app_state /\ pollerPc' = "sleep")]_vars

\* C2: a cycle whose HTTP status is not success submits no command, leaves the
\* store as it was, and the poller goes on to its interval sleep.
C2_NonSuccessStatus ==
    [][(CallApiEnds /\ result.transport = "ok" /\ NotSuccess(result.status))
        => /\ queue' = queue
           /\ published' = published
           /\ app_state' = app_state
           /\ pollerPc' = "sleep"]_vars

C2_Witness ==
    /\ outcome = "status"
    /\ pollerPc = "sleep"
    /\ published /= <<>>
    /\ app_state.currency_list = Last(published)

\* C3: once every pending publish is applied the store holds the list of the most
\* recent successful cycle, and a transport failure leaves the poller running so
\* that a later successful cycle still updates the store.
C3_StoreFollowsCycles ==
    /\ (mainPc = "running" /\ queue = <<>>) => app_state.currency_list = LastGood
    /\ outcome = "transport" => pollerPc \in {"sleep", "call_api", "handle"}

\* C4: a status-OK response that lacks the key of one tracked pair still publishes
\* a list in which that pair keeps its previous bid/ask and every other pair has
\* the bid/ask of the response.
C4_MissingKeyKeepsOthers ==
    [][\A i \in 1..Len(currency_list) :
        (/\ CallApiEnds
         /\ Delivering
         /\ result.transport = "ok" /\ result.status = StatusCode_OK
         /\ result.text = "ok" /\ result.json /\ result.value.t = "object"
         /\ PairName(currency_list[i]) \notin DOMAIN result.value.m
         /\ \A j \in 1..Len(currency_list) \ {i} :
                /\ PairName(currency_list[j]) \in DOMAIN result.value.m
                /\ Len(FieldOf(result.value, PairName(currency_list[j]), BID_FIELD)) = 1
                /\ Len(FieldOf(result.value, PairName(currency_list[j]), ASK_FIELD)) = 1)
        => /\ Len(published') = Len(published) + 1
           /\ Last(published')[i].bid = LastGood[i].bid
           /\ Last(published')[i].ask = LastGood[i].ask
           /\ \A j \in 1..Len(currency_list) \ {i} :
                /\ <<Last(published')[j].bid>>
                     = FieldOf(result.value, PairName(currency_list[j]), BID_FIELD)
                /\ <<Last(published')[j].ask>>
                     = FieldOf(result.value, PairName(currency_list[j]), ASK_FIELD)]_vars

\* C5: the store's list is always the initial list or one whole list that a single
\* cycle published; it changes only by the delegate taking a queued command's
\* payload as the whole list; and the poller's publish is never blocked.
C5_WholeList ==
    /\ [](app_state.currency_list
            \in {AppState_default.currency_list} \cup Range(published))
    /\ []((pollerPc = "handle" /\ ProcessAlive
            /\ CallApiOutcome(result, currency_list) = "submitted")
                => ENABLED HandleResponse)
    /\ [][app_state' /= app_state
            => /\ queue /= <<>>
               /\ \E k \in 1..Len(queue) : app_state'.currency_list = queue[k].payload
               /\ Len(queue') = Len(queue) - 1]_vars

C5_Witness ==
    /\ Len(published) >= 2
    /\ queue /= <<>>
    /\ app_state.currency_list = published[1]
    /\ published[1] /= published[2]

\* C6: lists are applied in the order they were published, each at most once.
C6_AppliedInOrder ==
    /\ \A i \in 1..Len(applied) : \A j \in 1..Len(applied) :
            i < j => applied[i] < applied[j]
    /\ applied /= <<>> => app_state.currency_list = published[Last(applied)]

C6_Witness ==
    /\ Len(applied) >= 2
    /\ published[applied[1]] /= published[applied[2]]

\* C7: the store's list, the poller's list and every submitted list keep the
\* length and the (base, target) of the initial list, so the request parameter
\* derived from the store never changes.
C7_PairsFixed ==
    /\ SameShape(app_state.currency_list)
    /\ SameShape(currency_list)
    /\ \A k \in 1..Len(queue) : SameShape(queue[k].payload)
    /\ pair_param(app_state.currency_list) = pair_param(AppState_default.currency_list)

C7_Witness ==
    /\ applied /= <<>>
    /\ app_state.currency_list /= AppState_default.currency_list
    /\ param = pair_param(app_state.currency_list)

\* C8: once the window has closed and main waits in handle.join(), the wait
\* eventually ends.
C8_JoinTerminates == (mainPc = "join") ~> (mainPc /= "join")

\* C9: pair_param of a non-empty list is the "{base}-{target}" of its records in
\* list order, separated by single commas, with no leading or trailing comma and
\* no whitespace; [(EUR,USD),(BTC,USD)] gives "EUR-USD,BTC-USD".
C9_PairParam ==
    param /= <<>> =>
        /\ LET parts == SplitOn(param, ",")
           IN  /\ Len(parts) = Len(currency_list)
               /\ \A i \in 1..Len(currency_list) :
                    parts[i] = currency_list[i].base \o <<"-">> \o currency_list[i].target
        /\ param[1] /= "," /\ param[Len(param)] /= ","
        /\ \A i \in 1..Len(param) : param[i] \notin {" ", "\t", "\n"}
        /\ currency_list = <<Currency_new(EUR, USD), Currency_new(BTC, USD)>>
            => param = <<"E", "U", "R", "-", "U", "S", "D", ",",
                         "B", "T", "C", "-", "U", "S", "D">>

C9_Witness ==
    /\ currency_list = <<Currency_new(EUR, USD), Currency_new(BTC, USD)>>
    /\ param /= <<>>

\* C10 as stated: once call_api has hit a malformed response, the UI thread has
\* stopped running too.
C10_WholeProcessCrashes ==
    (pollerPc = "panicked" /\ outcome \in Malformed) => mainPc \notin {"starting", "running"}

\* C10 amended: a malformed response panics the poller thread only. The poller
\* runs no further cycle and publishes nothing more; the step leaves the main
\* thread, the store and the queue as they were; the UI goes on applying the
\* commands already submitted; main panics only at launch or in handle.join().
C10_OnlyPollerPanics ==
    /\ [][(CallApiEnds /\ outcome' \in Malformed)
            => /\ pollerPc' = "panicked"
               /\ mainPc' = mainPc /\ app_state' = app_state /\ queue' = queue]_vars
    /\ [][pollerPc = "panicked"
            => pollerPc' = "panicked" /\ published' = published]_vars
    /\ []((pollerPc = "panicked" /\ mainPc = "running" /\ queue /= <<>>)
            => ENABLED DeliverCommand)
    /\ [][(mainPc /= "panicked" /\ mainPc' = "panicked")
            => mainPc \in {"starting", "join"}]_vars

C10_Witness ==
    /\ pollerPc = "panicked"
    /\ outcome \in Malformed
    /\ mainPc = "running"
    /\ Len(applied) >= 2
    /\ queue = <<>>

====
